---- MODULE Spec2Model ----
(***************************************************************************)
(* keybase-gitea-bot: the webhook ingestion and fan-out pipeline.          *)
(*                                                                         *)
(* Strings whose content the code inspects (repository names, refs,        *)
(* commit messages) are sequences of one-character strings, so that        *)
(* strings.ToLower, strings.Split and strings.Join are computed and not    *)
(* assumed.  Rendered messages are sequences of the pieces fmt.Sprintf     *)
(* puts together; the empty sequence is the empty string.                  *)
(***************************************************************************)
EXTENDS Integers, Sequences, FiniteSets, TLC

\* A Go pointer (or interface) is a sequence: <<>> is nil, <<v>> points to v.
NilPtr == <<>>
IsNil(p) == Len(p) = 0
Deref(p) == p[1]
Ptr(S) == {NilPtr} \cup {<<v>> : v \in S}
NoError == "nil"

(* ------------------------------ bounds -------------------------------- *)
\* most commits a push payload carries
MaxCommits == 2
\* most rows the subscriptions table holds
MaxSubs == 3

(* ------------------------- strings (Go runtime) ----------------------- *)
UpperChars == <<"A","B","C","D","E","F","G","H","I","J","K","L","M",
                "N","O","P","Q","R","S","T","U","V","W","X","Y","Z">>
LowerChars == <<"a","b","c","d","e","f","g","h","i","j","k","l","m",
                "n","o","p","q","r","s","t","u","v","w","x","y","z">>

\* unicode.ToLower on one character: the lower-case letter of an upper-case
\* one, every other character unchanged
LowerOf == [i \in DOMAIN UpperChars |-> LowerChars[i]]
UpperSet == {UpperChars[i] : i \in DOMAIN UpperChars}
UpperIndex == [c \in UpperSet |-> CHOOSE i \in DOMAIN UpperChars : UpperChars[i] = c]
LowerChar(c) == IF c \in UpperSet THEN LowerOf[UpperIndex[c]] ELSE c

\* strings.ToLower
ToLower(s) == [i \in DOMAIN s |-> LowerChar(s[i])]

\* index of the first occurrence of sep in s, 0 when there is none
IndexOf(s, sep) ==
  IF \E i \in DOMAIN s : s[i] = sep
  THEN CHOOSE i \in DOMAIN s : s[i] = sep /\ \A j \in 1..(i-1) : s[j] # sep
  ELSE 0

\* strings.Split(s, sep) for a one-character separator: always at least one field
RECURSIVE Split(_, _)
Split(s, sep) ==
  LET i == IndexOf(s, sep)
  IN IF i = 0 THEN <<s>>
     ELSE <<SubSeq(s, 1, i-1)>> \o Split(SubSeq(s, i+1, Len(s)), sep)

\* strings.Join(fields, sep)
RECURSIVE Join(_, _)
Join(fields, sep) ==
  IF Len(fields) = 0 THEN <<>>
  ELSE IF Len(fields) = 1 THEN fields[1]
  ELSE fields[1] \o <<sep>> \o Join(Tail(fields), sep)

\* strings.TrimSpace
RECURSIVE TrimSpace(_)
TrimSpace(s) ==
  IF Len(s) = 0 THEN s
  ELSE IF s[1] = " " THEN TrimSpace(Tail(s))
  ELSE IF s[Len(s)] = " " THEN TrimSpace(SubSeq(s, 1, Len(s)-1))
  ELSE s

(* ------------------------- formatting (fmt.Sprintf) ------------------- *)
\* fmt.Sprintf(format, args...): one rendered piece.  Every format string of
\* the program holds literal text, so a rendered piece is never empty.
Sprintf(format, args) == <<[fmt |-> format, args |-> args]>>
\* the empty Go string, as a rendered message
EmptyString == <<>>

(* ----------------------- the world the bot runs in -------------------- *)
\* conversations (destinations)
Convs == {"conv1", "conv2", "conv3"}

\* repository full names, as users type them and as Gitea reports them
RepoMixed == <<"O", "r", "g", "/", "A", "p", "p">>
RepoLower == <<"o", "r", "g", "/", "a", "p", "p">>
RepoOther == <<"x", "/", "y">>
RepoNames == {RepoMixed, RepoLower, RepoOther}

\* the instance secret (main.go:131 getConfig, passed to NewHTTPSrv and NewHandler)
InstanceSecret == "instance-secret"

\* base.MakeSecret(repo, convID, secret): a keyed digest of the triple.  The
\* digest is modelled as the triple itself: deterministic, and distinct for
\* distinct triples.
MakeSecret(repo, convID, secret) == [repo |-> repo, conv |-> convID, key |-> secret]

\* tokens a webhook sender may put in the payload: the ones the bot issued for
\* the lowercase names, one derived from a name as typed, and one derived
\* under another key (stale or forged)
Tokens ==
  {MakeSecret(RepoLower, c, InstanceSecret) : c \in Convs}
  \cup {MakeSecret(RepoOther, "conv1", InstanceSecret),
        MakeSecret(RepoMixed, "conv1", InstanceSecret),
        MakeSecret(RepoLower, "conv1", "old-secret")}

(* --------------------------- webhook payloads ------------------------- *)
\* gitea.User, gitea.Repository, gitea.PayloadCommit: the fields the bot reads
UserOf(fullName, userName) == [FullName |-> fullName, UserName |-> userName]
RepoOf(fullName) == [FullName |-> fullName]
TheCommit == [Message |-> <<"f", "i", "x", "\n", "m", "o", "r", "e">>, URL |-> "https://git/c1"]

\* commit lists of every length up to MaxCommits
CommitLists == UNION {[1..n -> {TheCommit}] : n \in 0..MaxCommits}

\* refs with three, two and one slash-separated segments
RefFull == <<"r", "e", "f", "s", "/", "h", "/", "m", "a", "i", "n">>
RefShort == <<"h", "/", "m">>
RefBare == <<"m", "a", "i", "n">>

\* A profile bounds the values the fields of a payload are drawn from.
\* ShapeProfile varies what is present in the body (absent nested objects,
\* actions, refs, commit counts, display names) for one repository and token;
\* AuthProfile varies the repository name and the token of complete bodies.
ShapeProfile ==
  [Secrets  |-> {MakeSecret(RepoLower, "conv1", InstanceSecret)},
   Repos    |-> Ptr({RepoOf(RepoMixed)}),
   Forkees  |-> Ptr({RepoOf(RepoOther)}),
   Users    |-> Ptr({UserOf("Ana B", "ana"), UserOf("", "ana")}),
   Assignee |-> Ptr({UserOf("", "cara")}),
   Refs     |-> {RefFull, RefShort, RefBare},
   Commits  |-> CommitLists,
   IssueActions   |-> {"opened", "assigned", "label_updated"},
   CommentActions |-> {"created", "deleted", "edited", ""},
   RepoActions    |-> {"created", "transferred"},
   ReleaseActions |-> {"published", "deleted", "prereleased"},
   Nested   |-> TRUE]

AuthProfile ==
  [Secrets  |-> Tokens,
   Repos    |-> {<<RepoOf(n)>> : n \in RepoNames \cup {<<>>}},
   Forkees  |-> {<<RepoOf(RepoOther)>>},
   Users    |-> {<<UserOf("Ana B", "ana")>>},
   Assignee |-> {NilPtr},
   Refs     |-> {RefFull},
   Commits  |-> {<<TheCommit>>},
   IssueActions   |-> {"opened"},
   CommentActions |-> {"created"},
   RepoActions    |-> {"created"},
   ReleaseActions |-> {"published"},
   Nested   |-> FALSE]

\* optional nested objects: absent only where the profile varies presence
Opt(P, S) == IF P.Nested THEN Ptr(S) ELSE {<<v>> : v \in S}

\* gitea.Issue / gitea.Comment / gitea.Release / gitea.PullRequest as read by the bot
Issues(P) ==
  Opt(P, [Index : {7}, Title : {"crash"}, URL : {"https://git/i/7"}, Assignee : P.Assignee])
Comments(P) ==
  Opt(P, [Body : {"looks good"}, HTMLURL : {"https://git/i/7#c1"}, Poster : P.Users])
Releases(P) ==
  Opt(P, [Title : {"v1"}, TagName : {"v1.0"}, TarURL : {"https://git/v1.tar"}])
PRBranches(P) ==
  Opt(P, [Name : {"feature"}, Repository : Opt(P, {RepoOf(RepoOther)})])
PullRequests(P) ==
  Opt(P, [Index : {9}, Title : {"feature"}, URL : {"https://git/p/9"},
          Assignee : P.Assignee, Head : PRBranches(P)])

\* the payload structs of gitea/modules/structs/hook.go, one set per schema
PayloadsOf(schema, P) ==
  CASE schema = "PushPayload" ->
         [schema : {schema}, Secret : P.Secrets, Ref : P.Refs, Commits : P.Commits,
          Repo : P.Repos, Pusher : P.Users]
    [] schema \in {"CreatePayload", "DeletePayload"} ->
         [schema : {schema}, Secret : P.Secrets, Ref : {RefBare}, RefType : {"branch"},
          Repo : P.Repos]
    [] schema = "ForkPayload" ->
         [schema : {schema}, Secret : P.Secrets, Forkee : P.Forkees, Repo : P.Repos]
    [] schema = "IssuePayload" ->
         [schema : {schema}, Secret : P.Secrets, Action : P.IssueActions,
          Issue : Issues(P), Repository : P.Repos, Sender : P.Users]
    [] schema = "IssueCommentPayload" ->
         [schema : {schema}, Secret : P.Secrets, Action : P.CommentActions,
          Issue : Issues(P), Comment : Comments(P), Repository : P.Repos]
    [] schema = "RepositoryPayload" ->
         [schema : {schema}, Secret : P.Secrets, Action : P.RepoActions,
          Repository : P.Repos, Sender : P.Users]
    [] schema = "ReleasePayload" ->
         [schema : {schema}, Secret : P.Secrets, Action : P.ReleaseActions,
          Release : Releases(P), Repository : P.Repos, Sender : P.Users]
    [] schema = "PullRequestPayload" ->
         [schema : {schema}, Secret : P.Secrets, Action : P.IssueActions,
          PullRequest : PullRequests(P), Repository : P.Repos, Sender : P.Users]

(* ------------------------------ decoding ------------------------------ *)
\* db.go:155-168  the supported event types
EventTypes ==
  {"create", "delete", "fork", "push", "issues", "issue_comment", "repository",
   "release", "pull_request", "pull_request_approved", "pull_request_rejected",
   "pull_request_comment"}

\* db.go:200-221  the struct ParseWebhook allocates for an event type
SchemaOf(eventType) ==
  CASE eventType = "push" -> "PushPayload"
    [] eventType = "create" -> "CreatePayload"
    [] eventType = "delete" -> "DeletePayload"
    [] eventType = "fork" -> "ForkPayload"
    [] eventType = "issues" -> "IssuePayload"
    [] eventType = "issue_comment" -> "IssueCommentPayload"
    [] eventType = "repository" -> "RepositoryPayload"
    [] eventType = "release" -> "ReleasePayload"
    [] eventType \in {"pull_request", "pull_request_approved",
                      "pull_request_rejected", "pull_request_comment"} ->
         "PullRequestPayload"
    [] OTHER -> "none"

\* json.Unmarshal(payload, event): the body is given by what it decodes to in
\* the schema of its event type.  A malformed body makes Unmarshal return an
\* error, having filled the struct with what it read before (partial).
Unmarshal(body) ==
  IF body.kind = "json" THEN [event |-> <<body.payload>>, err |-> NoError]
  ELSE [event |-> <<body.partial>>, err |-> "json: cannot unmarshal"]

\* mutant: the struct Unmarshal broke off in is returned along with the error
ParseWebhookReturnsPartial(eventType, body) ==
  IF SchemaOf(eventType) = "none"
  THEN [event |-> NilPtr, err |-> "unexpected event type"]
  ELSE Unmarshal(body)

\* db.go:199  ParseWebhook
ParseWebhook(eventType, body) ==
  IF SchemaOf(eventType) = "none"
  THEN [event |-> NilPtr, err |-> "unexpected event type"]
  ELSE LET u == Unmarshal(body)
       IN IF u.err # NoError THEN [event |-> NilPtr, err |-> u.err]
          ELSE [event |-> u.event, err |-> NoError]

\* db.go:231  getCommitMessages
getCommitMessages(event) == [i \in DOMAIN event.Commits |-> event.Commits[i].Message]

\* db.go:240  refToBranch: refFields[2:] panics when Split gave fewer than two
\* fields (slice bounds out of range)
refToBranchPanics(ref) == Len(Split(ref, "/")) < 2
refToBranch(ref) ==
  LET refFields == Split(ref, "/")
  IN Join(SubSeq(refFields, 3, Len(refFields)), "/")

\* db.go:262  formatCommitString
CommitMaxLen == 50
formatCommitString(commit, maxLen) ==
  LET firstLine == Split(commit, "\n")[1]
  IN IF Len(firstLine) > maxLen
     THEN TrimSpace(SubSeq(firstLine, 1, maxLen)) \o <<".", ".", ".">>
     ELSE firstLine

\* db.go:271  FormatPushMsg
RECURSIVE CommitLines(_)
CommitLines(messages) ==
  IF Len(messages) = 0 THEN EmptyString
  ELSE Sprintf("- %s\n", <<formatCommitString(Head(messages), CommitMaxLen)>>)
       \o CommitLines(Tail(messages))

FormatPushMsg(username, repo, branch, numCommits, messages, commitURL) ==
  Sprintf("%s pushed %d commit", <<username, numCommits>>)
  \o (IF numCommits # 1 THEN Sprintf("s", <<>>) ELSE EmptyString)
  \o Sprintf(" to %s %s:\n", <<repo, branch>>)
  \o CommitLines(messages)
  \o Sprintf("\n%s", <<commitURL>>)

\* db.go:285
FormatCreateMsg(ref, refType, repo) ==
  Sprintf("Created new %s %s in repo %s", <<refType, ref, repo>>)

\* db.go:289
FormatDeleteMsg(ref, refType, repo) ==
  Sprintf("Deleted %s %s in repo %s", <<refType, ref, repo>>)

\* db.go:293
FormatForkMsg(original, newFork) ==
  Sprintf("%s has been forked to %s", <<original, newFork>>)

\* db.go:297
FormatIssueMsg(action, username, issueNum, repo, assignee, title, issueURL) ==
  IF action \in {"opened", "closed", "reopened", "edited"}
  THEN Sprintf("%s %s issue \"%s\" (#%d) on %s: %s",
               <<username, action, title, issueNum, repo, issueURL>>)
  ELSE IF action = "assigned"
  THEN Sprintf("%s %s issue \"%s\" (#%d) on %s to %s: %s",
               <<username, action, title, issueNum, repo, assignee, issueURL>>)
  ELSE Sprintf("%s %s issue #%d", <<username, action, issueNum>>)

\* db.go:311
FormatIssueCommentMsg(action, username, issueNum, repo, comment, issueTitle, commentURL) ==
  IF action = "created"
  THEN Sprintf("%s commented on issue \"%s\" (#%d) on %s:\n%s\n%s",
               <<username, issueTitle, issueNum, repo, comment, commentURL>>)
  ELSE IF action = "deleted"
  THEN Sprintf("%s deleted their comment on issue \"%s\" (#%d) on %s:\n%s",
               <<username, issueTitle, issueNum, repo, comment>>)
  ELSE IF action = "edited"
  THEN Sprintf("%s edited their comment on issue \"%s\" (#%d) on %s:\n%s\n%s",
               <<username, issueTitle, issueNum, repo, comment, commentURL>>)
  ELSE EmptyString

\* db.go:324
FormatRepositoryMsg(action, username, repo) ==
  IF action \in {"created", "deleted"}
  THEN Sprintf("%s %s repository %s", <<username, action, repo>>)
  ELSE EmptyString

\* db.go:333
FormatReleaseMsg(action, username, repo, release, tag, tarURL) ==
  IF action \in {"published", "updated"}
  THEN Sprintf("%s %s release \"%s\" (%s) in %s: %s",
               <<username, action, release, tag, repo, tarURL>>)
  ELSE IF action = "deleted"
  THEN Sprintf("%s %s release \"%s\" (%s) in %s",
               <<username, action, release, tag, repo>>)
  ELSE EmptyString

\* db.go:344
FormatPullRequestMsg(action, username, repo, prNum, title, sourceBranch, assignee, URL) ==
  IF action \in {"opened", "closed", "reopened", "edited"}
  THEN Sprintf("%s %s PR \"%s\" (#%d) on %s from source %s: %s",
               <<username, action, title, prNum, repo, sourceBranch, URL>>)
  ELSE IF action = "assigned"
  THEN Sprintf("%s %s PR \"%s\" (#%d) on %s to %s: %s",
               <<username, action, title, prNum, repo, assignee, URL>>)
  ELSE Sprintf("%s %s PR #%d", <<username, action, prNum>>)

(* ------------------- handleWebhook: decode to render ------------------ *)
\* the Go zero value of the handler's local `secret`: the empty string
NoSecret == [repo |-> <<>>, conv |-> "", key |-> ""]

\* what the type switch of handleWebhook leaves behind: the handler returned
\* early, panicked (nil pointer dereference, slice bounds out of range), or
\* fell through with message, repo and secret set
Returned == [outcome |-> "return", message |-> EmptyString, repo |-> <<>>, secret |-> NoSecret]
Panicked == [outcome |-> "panic", message |-> EmptyString, repo |-> <<>>, secret |-> NoSecret]
Rendered(message, repo, secret) ==
  [outcome |-> "rendered", message |-> message, repo |-> repo, secret |-> secret]

\* http.go:268-271 (and 313-323, 338-341, 356-359, 370-373, 389-401): the
\* display name, the account handle when the display name is empty
DisplayName(user) == IF user.FullName = "" THEN user.UserName ELSE user.FullName

\* http.go:387-394 / 311-318: the assignee's name, "" when there is none
AssigneeName(assignee) == IF IsNil(assignee) THEN "" ELSE DisplayName(Deref(assignee))

\* http.go:261-283
CasePush(event) ==
  IF Len(event.Commits) = 0 THEN Returned
  ELSE IF IsNil(event.Pusher) \/ IsNil(event.Repo) \/ refToBranchPanics(event.Ref)
  THEN Panicked
  ELSE Rendered(
         FormatPushMsg(DisplayName(Deref(event.Pusher)), Deref(event.Repo).FullName,
                       refToBranch(event.Ref), Len(event.Commits),
                       getCommitMessages(event), event.Commits[Len(event.Commits)].URL),
         Deref(event.Repo).FullName, event.Secret)

\* http.go:284-292
CaseCreate(event) ==
  IF IsNil(event.Repo) THEN Panicked
  ELSE Rendered(FormatCreateMsg(event.Ref, event.RefType, Deref(event.Repo).FullName),
                Deref(event.Repo).FullName, event.Secret)

\* http.go:293-301
CaseDelete(event) ==
  IF IsNil(event.Repo) THEN Panicked
  ELSE Rendered(FormatDeleteMsg(event.Ref, event.RefType, Deref(event.Repo).FullName),
                Deref(event.Repo).FullName, event.Secret)

\* mutant: the repository context of a fork is the fork target
CaseForkByTarget(event) ==
  IF IsNil(event.Forkee) \/ IsNil(event.Repo) THEN Panicked
  ELSE Rendered(FormatForkMsg(Deref(event.Forkee).FullName, Deref(event.Repo).FullName),
                Deref(event.Repo).FullName, event.Secret)

\* http.go:302-309
CaseFork(event) ==
  IF IsNil(event.Forkee) \/ IsNil(event.Repo) THEN Panicked
  ELSE Rendered(FormatForkMsg(Deref(event.Forkee).FullName, Deref(event.Repo).FullName),
                Deref(event.Forkee).FullName, event.Secret)

\* http.go:310-336
CaseIssue(event) ==
  IF IsNil(event.Issue) \/ IsNil(event.Sender) \/ IsNil(event.Repository) THEN Panicked
  ELSE LET issue == Deref(event.Issue)
       IN Rendered(
            FormatIssueMsg(event.Action, DisplayName(Deref(event.Sender)), issue.Index,
                           Deref(event.Repository).FullName, AssigneeName(issue.Assignee),
                           issue.Title, issue.URL),
            Deref(event.Repository).FullName, event.Secret)

\* http.go:337-354
CaseIssueComment(event) ==
  IF IsNil(event.Comment) THEN Panicked
  ELSE IF IsNil(Deref(event.Comment).Poster) \/ IsNil(event.Issue)
          \/ IsNil(event.Repository) THEN Panicked
  ELSE LET comment == Deref(event.Comment)
           issue == Deref(event.Issue)
       IN Rendered(
            FormatIssueCommentMsg(event.Action, DisplayName(Deref(comment.Poster)),
                                  issue.Index, Deref(event.Repository).FullName,
                                  comment.Body, issue.Title, comment.HTMLURL),
            Deref(event.Repository).FullName, event.Secret)

\* http.go:355-368
CaseRepository(event) ==
  IF IsNil(event.Sender) \/ IsNil(event.Repository) THEN Panicked
  ELSE Rendered(
         FormatRepositoryMsg(event.Action, DisplayName(Deref(event.Sender)),
                             Deref(event.Repository).FullName),
         Deref(event.Repository).FullName, event.Secret)

\* http.go:369-385
CaseRelease(event) ==
  IF IsNil(event.Sender) \/ IsNil(event.Repository) \/ IsNil(event.Release) THEN Panicked
  ELSE LET release == Deref(event.Release)
       IN Rendered(
            FormatReleaseMsg(event.Action, DisplayName(Deref(event.Sender)),
                             Deref(event.Repository).FullName, release.Title,
                             release.TagName, release.TarURL),
            Deref(event.Repository).FullName, event.Secret)

\* http.go:386-415
CasePullRequest(event) ==
  IF IsNil(event.PullRequest) THEN Panicked
  ELSE IF IsNil(Deref(event.PullRequest).Head) THEN Panicked
  ELSE IF IsNil(Deref(Deref(event.PullRequest).Head).Repository)
          \/ IsNil(event.Sender) \/ IsNil(event.Repository) THEN Panicked
  ELSE LET pr == Deref(event.PullRequest)
           head == Deref(pr.Head)
           source == Sprintf("%s/%s", <<Deref(head.Repository).FullName, head.Name>>)
       IN Rendered(
            FormatPullRequestMsg(event.Action, DisplayName(Deref(event.Sender)),
                                 Deref(event.Repository).FullName, pr.Index, pr.Title,
                                 source, AssigneeName(pr.Assignee), pr.URL),
            Deref(event.Repository).FullName, event.Secret)

\* http.go:260-416  the type switch over the decoded event
TypeSwitch(event) ==
  CASE event.schema = "PushPayload" -> CasePush(event)
    [] event.schema = "CreatePayload" -> CaseCreate(event)
    [] event.schema = "DeletePayload" -> CaseDelete(event)
    [] event.schema = "ForkPayload" -> CaseFork(event)
    [] event.schema = "IssuePayload" -> CaseIssue(event)
    [] event.schema = "IssueCommentPayload" -> CaseIssueComment(event)
    [] event.schema = "RepositoryPayload" -> CaseRepository(event)
    [] event.schema = "ReleasePayload" -> CaseRelease(event)
    [] event.schema = "PullRequestPayload" -> CasePullRequest(event)

(* The file holds handleWebhook a second time, at lines 41-200: the same
   handler with event.Pusher.FullName, event.Sender.FullName,
   event.Comment.Poster.FullName and Assignee.FullName passed to the
   formatters as they are.  Its create, delete and fork cases (78-103) and
   its dispatch (181-199) are those of lines 284-309 and 418-436. *)
\* http.go:105-109 / 158-162: the assignee's name, "" when there is none
AssigneeName_1(assignee) == IF IsNil(assignee) THEN "" ELSE Deref(assignee).FullName

\* http.go:60-77
CasePush_1(event) ==
  IF Len(event.Commits) = 0 THEN Returned
  ELSE IF IsNil(event.Pusher) \/ IsNil(event.Repo) \/ refToBranchPanics(event.Ref)
  THEN Panicked
  ELSE Rendered(
         FormatPushMsg(Deref(event.Pusher).FullName, Deref(event.Repo).FullName,
                       refToBranch(event.Ref), Len(event.Commits),
                       getCommitMessages(event), event.Commits[Len(event.Commits)].URL),
         Deref(event.Repo).FullName, event.Secret)

\* http.go:104-122
CaseIssue_1(event) ==
  IF IsNil(event.Issue) \/ IsNil(event.Sender) \/ IsNil(event.Repository) THEN Panicked
  ELSE LET issue == Deref(event.Issue)
       IN Rendered(
            FormatIssueMsg(event.Action, Deref(event.Sender).FullName, issue.Index,
                           Deref(event.Repository).FullName, AssigneeName_1(issue.Assignee),
                           issue.Title, issue.URL),
            Deref(event.Repository).FullName, event.Secret)

\* http.go:123-135
CaseIssueComment_1(event) ==
  IF IsNil(event.Comment) THEN Panicked
  ELSE IF IsNil(Deref(event.Comment).Poster) \/ IsNil(event.Issue)
          \/ IsNil(event.Repository) THEN Panicked
  ELSE LET comment == Deref(event.Comment)
           issue == Deref(event.Issue)
       IN Rendered(
            FormatIssueCommentMsg(event.Action, Deref(comment.Poster).FullName,
                                  issue.Index, Deref(event.Repository).FullName,
                                  comment.Body, issue.Title, comment.HTMLURL),
            Deref(event.Repository).FullName, event.Secret)

\* http.go:136-144
CaseRepository_1(event) ==
  IF IsNil(event.Sender) \/ IsNil(event.Repository) THEN Panicked
  ELSE Rendered(
         FormatRepositoryMsg(event.Action, Deref(event.Sender).FullName,
                             Deref(event.Repository).FullName),
         Deref(event.Repository).FullName, event.Secret)

\* http.go:145-156
CaseRelease_1(event) ==
  IF IsNil(event.Sender) \/ IsNil(event.Repository) \/ IsNil(event.Release) THEN Panicked
  ELSE LET release == Deref(event.Release)
       IN Rendered(
            FormatReleaseMsg(event.Action, Deref(event.Sender).FullName,
                             Deref(event.Repository).FullName, release.Title,
                             release.TagName, release.TarURL),
            Deref(event.Repository).FullName, event.Secret)

\* http.go:157-179
CasePullRequest_1(event) ==
  IF IsNil(event.PullRequest) THEN Panicked
  ELSE IF IsNil(Deref(event.PullRequest).Head) THEN Panicked
  ELSE IF IsNil(Deref(Deref(event.PullRequest).Head).Repository)
          \/ IsNil(event.Sender) \/ IsNil(event.Repository) THEN Panicked
  ELSE LET pr == Deref(event.PullRequest)
           head == Deref(pr.Head)
           source == Sprintf("%s/%s", <<Deref(head.Repository).FullName, head.Name>>)
       IN Rendered(
            FormatPullRequestMsg(event.Action, Deref(event.Sender).FullName,
                                 Deref(event.Repository).FullName, pr.Index, pr.Title,
                                 source, AssigneeName_1(pr.Assignee), pr.URL),
            Deref(event.Repository).FullName, event.Secret)

\* http.go:59-179  the type switch of the first copy
TypeSwitch_1(event) ==
  CASE event.schema = "PushPayload" -> CasePush_1(event)
    [] event.schema = "CreatePayload" -> CaseCreate(event)
    [] event.schema = "DeletePayload" -> CaseDelete(event)
    [] event.schema = "ForkPayload" -> CaseFork(event)
    [] event.schema = "IssuePayload" -> CaseIssue_1(event)
    [] event.schema = "IssueCommentPayload" -> CaseIssueComment_1(event)
    [] event.schema = "RepositoryPayload" -> CaseRepository_1(event)
    [] event.schema = "ReleasePayload" -> CaseRelease_1(event)
    [] event.schema = "PullRequestPayload" -> CasePullRequest_1(event)

\* http.go:418  the dispatch decision
NothingToSend(message, repo) == message = EmptyString \/ repo = <<>>

\* mutant: the repository name is looked up as Gitea reports it
LookupKeyAsReported(repo) == repo

\* http.go:422  the registry key of the event's repository
LookupKey(repo) == ToLower(repo)

\* mutant: one expected token per repository, whatever the conversation
ExpectedTokenPerRepo(repo, convID) == MakeSecret(repo, "conv1", InstanceSecret)

\* http.go:430  the token the handler expects for a conversation
ExpectedToken(repo, convID) == MakeSecret(repo, convID, InstanceSecret)

(* --------------------------- the registry (db.go) --------------------- *)
\* db.go:23  CreateSubscription: INSERT ... ON DUPLICATE KEY UPDATE on the key
\* (conv_id, repo); the repository name is stored as it is passed
CreateSubscription(table, convID, repo, oauthIdentifier) ==
  {row \in table : ~(row.conv = convID /\ row.repo = repo)}
  \cup {[conv |-> convID, repo |-> repo, oauth |-> oauthIdentifier]}

\* db.go:36  DeleteSubscription
DeleteSubscription(table, convID, repo) ==
  {row \in table : ~(row.conv = convID /\ row.repo = repo)}

\* the orders a result set may come in (the query has no ORDER BY)
Orders(S) ==
  {f \in [1..Cardinality(S) -> S] : \A i, j \in 1..Cardinality(S) : f[i] = f[j] => i = j}

\* db.go:56  GetSubscribedConvs: the conversations of the rows WHERE repo = ?,
\* in any order; on a query error nothing with the error, on a scan error the
\* rows read so far with the error
GetSubscribedConvs(table, repo) ==
  LET found == {row.conv : row \in {r \in table : r.repo = repo}}
  IN {[res |-> order, err |-> NoError] : order \in Orders(found)}
     \cup {[res |-> <<>>, err |-> "query error"]}
     \cup {[res |-> SubSeq(order, 1, k), err |-> "scan error"] :
             order \in Orders(found), k \in 1..(Cardinality(found) - 1)}

\* mutant: the bot's HTTP address is passed as the key of the secret
formatSetupInstructionsWrongKey(giteaURL, repo, convID, httpAddress, secret) ==
  Sprintf("To configure your project ... %s/%s/settings/hooks ... Target URL %s/giteabot/webhook ... Secret %s",
          <<giteaURL, repo, httpAddress, MakeSecret(repo, convID, httpAddress)>>)

\* db.go:248  formatSetupInstructions: the text shown to a new subscriber
formatSetupInstructions(giteaURL, repo, convID, httpAddress, secret) ==
  Sprintf("To configure your project ... %s/%s/settings/hooks ... Target URL %s/giteabot/webhook ... Secret %s",
          <<giteaURL, repo, httpAddress, MakeSecret(repo, convID, secret)>>)

\* the secret a setup text tells its reader to paste into the webhook form
SecretShown(text) == text[1].args[4]

(* ------------------------------ the requests -------------------------- *)
\* one label per schema; the other three pull-request labels decode alike
ShapeLabels ==
  {"push", "create", "delete", "fork", "issues", "issue_comment", "repository",
   "release", "pull_request"}

\* one complete body per schema, for the bodies that break off half way
PartialProfile ==
  [AuthProfile EXCEPT !.Secrets = {MakeSecret(RepoLower, "conv1", InstanceSecret)},
                      !.Repos = {<<RepoOf(RepoLower)>>}]

JsonBody(p) == [kind |-> "json", payload |-> p]
MalformedBody(p) == [kind |-> "malformed", partial |-> p]
UnreadableBody == [kind |-> "unreadable"]

\* the bodies of a profile under an event type's label
RequestsOf(labels, P, wellFormed) ==
  UNION {{[label |-> l, body |-> IF wellFormed THEN JsonBody(p) ELSE MalformedBody(p)] :
            p \in PayloadsOf(SchemaOf(l), P)} : l \in labels}

\* the webhook requests the model sends: X-Gitea-Event label and body
Requests ==
  RequestsOf(ShapeLabels, AuthProfile, TRUE)
  \cup RequestsOf(ShapeLabels, ShapeProfile, TRUE)
  \cup RequestsOf(EventTypes \ ShapeLabels, PartialProfile, TRUE)
  \cup RequestsOf(EventTypes, PartialProfile, FALSE)
  \cup {[label |-> l, body |-> JsonBody(p)] :
          l \in {"ping", ""}, p \in PayloadsOf("CreatePayload", PartialProfile)}
  \cup {[label |-> "push", body |-> UnreadableBody]}

(* -------------------------------- state ------------------------------- *)
VARIABLES
  subs,       \* the subscriptions table
  typed,      \* history: the repository argument each current row was subscribed with
  pc,         \* where the webhook handler stands: idle, lookup, loop, done
  req,        \* the request being handled
  parsed,     \* what ParseWebhook returned for it
  message,    \* handler locals: the rendered text,
  repo,       \*   the repository the event is about (lowercased at line 422),
  secret,     \*   the token found in the payload,
  convs,      \*   the conversations GetSubscribedConvs returned,
  lookupErr,  \*   and its error
  idx,        \* position of the range loop in convs
  sent,       \* the ChatEcho calls of this request, in order
  lookups,    \* the registry lookups of this request
  status      \* what the HTTP caller gets: pending, 200, aborted

vars == <<subs, typed, pc, req, parsed, message, repo, secret, convs, lookupErr, idx, sent,
          lookups, status>>

NoRequest == [label |-> "", body |-> [kind |-> "none"]]
NotParsed == [event |-> NilPtr, err |-> NoError]

Init ==
  /\ subs = {}
  /\ typed = {}
  /\ pc = "idle"
  /\ req = NoRequest
  /\ parsed = NotParsed
  /\ message = EmptyString
  /\ repo = <<>>
  /\ secret = NoSecret
  /\ convs = <<>>
  /\ lookupErr = NoError
  /\ idx = 0
  /\ sent = <<>>
  /\ lookups = 0
  /\ status = "idle"

(* ------------------------- subscribe / unsubscribe -------------------- *)
\* Chat commands run on their own goroutine.  The webhook handler reads the
\* table once, in Lookup, and Receive does not read it, so a command that
\* runs while a request is in flight has the effect of one that ran before
\* the request or after it: the model takes commands between requests.
\* what the subscribe command makes of the repository argument.  The command
\* handler is taken from the specification (repository names are normalized
\* to lowercase; the row is inserted with the issued token).
SubscribedName(arg) == ToLower(arg)

\* !gitea subscribe <repo> in conversation convID: the row is stored and the
\* setup text with the conversation's secret is posted
Subscribe(convID, arg) ==
  LET name == SubscribedName(arg)
      text == formatSetupInstructions("https://git", name, convID, "https://bot",
                                      InstanceSecret)
      table == CreateSubscription(subs, convID, name, SecretShown(text))
  IN /\ pc = "idle"
     /\ Cardinality(table) <= MaxSubs
     /\ subs' = table
     /\ typed' = {t \in typed : ~(t.conv = convID /\ t.repo = name)}
                 \cup {[conv |-> convID, repo |-> name, arg |-> arg]}
     /\ UNCHANGED <<pc, req, parsed, message, repo, secret, convs, lookupErr, idx,
                    sent, lookups, status>>

\* !gitea unsubscribe <repo> in conversation convID
Unsubscribe(convID, arg) ==
  /\ pc = "idle"
  /\ \E row \in subs : row.conv = convID /\ row.repo = SubscribedName(arg)
  /\ subs' = DeleteSubscription(subs, convID, SubscribedName(arg))
  /\ typed' = {t \in typed : ~(t.conv = convID /\ t.repo = SubscribedName(arg))}
  /\ UNCHANGED <<pc, req, parsed, message, repo, secret, convs, lookupErr, idx,
                 sent, lookups, status>>

(* ------------------------------ handleWebhook ------------------------- *)
\* the handler is left: by a return (net/http then answers 200 OK, nothing
\* having been written) or by a panic (net/http recovers it and closes the
\* connection without an answer)
Leave(how) ==
  /\ pc' = "done"
  /\ status' = how

\* http.go:242-422  a request arrives: body read, decode, type switch,
\* dispatch decision, lowercasing of the repository name
Receive(r) ==
  /\ pc = "idle"
  /\ req' = r
  /\ convs' = <<>>
  /\ lookupErr' = NoError
  /\ idx' = 0
  /\ sent' = <<>>
  /\ lookups' = 0
  /\ UNCHANGED <<subs, typed>>
  /\ IF r.body.kind = "unreadable"
     THEN /\ parsed' = NotParsed
          /\ message' = EmptyString /\ repo' = <<>> /\ secret' = NoSecret
          /\ Leave("200")
     ELSE LET p == ParseWebhook(r.label, r.body)
          IN /\ parsed' = p
             /\ IF p.err # NoError
                THEN /\ message' = EmptyString /\ repo' = <<>> /\ secret' = NoSecret
                     /\ Leave("200")
                ELSE LET sw == TypeSwitch(Deref(p.event))
                     IN /\ message' = sw.message
                        /\ secret' = sw.secret
                        /\ IF sw.outcome = "panic"
                           THEN repo' = sw.repo /\ Leave("aborted")
                           ELSE IF sw.outcome = "return" \/ NothingToSend(sw.message, sw.repo)
                           THEN repo' = sw.repo /\ Leave("200")
                           ELSE /\ repo' = LookupKey(sw.repo)
                                /\ pc' = "lookup"
                                /\ status' = "pending"

\* http.go:41-185  a request arrives at the first copy of the handler
Receive_1(r) ==
  /\ pc = "idle"
  /\ req' = r
  /\ convs' = <<>>
  /\ lookupErr' = NoError
  /\ idx' = 0
  /\ sent' = <<>>
  /\ lookups' = 0
  /\ UNCHANGED <<subs, typed>>
  /\ IF r.body.kind = "unreadable"
     THEN /\ parsed' = NotParsed
          /\ message' = EmptyString /\ repo' = <<>> /\ secret' = NoSecret
          /\ Leave("200")
     ELSE LET p == ParseWebhook(r.label, r.body)
          IN /\ parsed' = p
             /\ IF p.err # NoError
                THEN /\ message' = EmptyString /\ repo' = <<>> /\ secret' = NoSecret
                     /\ Leave("200")
                ELSE LET sw == TypeSwitch_1(Deref(p.event))
                     IN /\ message' = sw.message
                        /\ secret' = sw.secret
                        /\ IF sw.outcome = "panic"
                           THEN repo' = sw.repo /\ Leave("aborted")
                           ELSE IF sw.outcome = "return" \/ NothingToSend(sw.message, sw.repo)
                           THEN repo' = sw.repo /\ Leave("200")
                           ELSE /\ repo' = LookupKey(sw.repo)
                                /\ pc' = "lookup"
                                /\ status' = "pending"

\* mutant: the `return` of line 426 is missing, the loop runs over the rows
\* read before the error
LookupIgnoresError ==
  /\ pc = "lookup"
  /\ lookups' = lookups + 1
  /\ \E got \in GetSubscribedConvs(subs, repo) :
       /\ convs' = got.res
       /\ lookupErr' = got.err
       /\ pc' = "loop" /\ idx' = 1 /\ status' = status
  /\ UNCHANGED <<subs, typed, req, parsed, message, repo, secret, sent>>

\* http.go:423-427  the registry lookup
Lookup ==
  /\ pc = "lookup"
  /\ lookups' = lookups + 1
  /\ \E got \in GetSubscribedConvs(subs, repo) :
       /\ convs' = got.res
       /\ lookupErr' = got.err
       /\ IF got.err # NoError
          THEN Leave("200") /\ idx' = idx
          ELSE pc' = "loop" /\ idx' = 1 /\ status' = status
  /\ UNCHANGED <<subs, typed, req, parsed, message, repo, secret, sent>>

\* base.ChatEcho(convID, text): the send succeeds or fails; a failure is logged
\* inside ChatEcho and nothing comes back to the caller
ChatEcho(log, convID, text, ok) == Append(log, [conv |-> convID, text |-> text, ok |-> ok])

\* mutant: the `continue` of line 433 is missing, the message goes out anyway
DeliverWithoutContinue ==
  /\ pc = "loop"
  /\ idx <= Len(convs)
  /\ \E ok \in BOOLEAN : sent' = ChatEcho(sent, convs[idx], message, ok)
  /\ idx' = idx + 1
  /\ UNCHANGED <<subs, typed, pc, req, parsed, message, repo, secret, convs, lookupErr,
                 lookups, status>>

\* mutant: a token mismatch ends the loop (`break` for `continue`)
DeliverBreakOnMismatch ==
  /\ pc = "loop"
  /\ idx <= Len(convs)
  /\ LET convID == convs[idx]
         secretToken == ExpectedToken(repo, convID)
     IN IF secret # secretToken
        THEN sent' = sent /\ idx' = Len(convs) + 1
        ELSE /\ \E ok \in BOOLEAN : sent' = ChatEcho(sent, convID, message, ok)
             /\ idx' = idx + 1
  /\ UNCHANGED <<subs, typed, pc, req, parsed, message, repo, secret, convs, lookupErr,
                 lookups, status>>

\* mutant: a failed send makes the handler return
DeliverReturnOnFailure ==
  /\ pc = "loop"
  /\ idx <= Len(convs)
  /\ LET convID == convs[idx]
         secretToken == ExpectedToken(repo, convID)
     IN IF secret # secretToken
        THEN sent' = sent /\ idx' = idx + 1 /\ UNCHANGED <<pc, status>>
        ELSE \E ok \in BOOLEAN :
               /\ sent' = ChatEcho(sent, convID, message, ok)
               /\ IF ok THEN idx' = idx + 1 /\ UNCHANGED <<pc, status>>
                  ELSE idx' = idx /\ pc' = "done" /\ status' = "200"
  /\ UNCHANGED <<subs, typed, req, parsed, message, repo, secret, convs, lookupErr,
                 lookups>>

\* mutant: a destination whose token does not match is unsubscribed
DeliverPrunesMismatch ==
  /\ pc = "loop"
  /\ idx <= Len(convs)
  /\ LET convID == convs[idx]
         secretToken == ExpectedToken(repo, convID)
     IN IF secret # secretToken
        THEN sent' = sent /\ subs' = DeleteSubscription(subs, convID, repo)
        ELSE /\ \E ok \in BOOLEAN : sent' = ChatEcho(sent, convID, message, ok)
             /\ subs' = subs
  /\ idx' = idx + 1
  /\ UNCHANGED <<typed, pc, req, parsed, message, repo, secret, convs, lookupErr,
                 lookups, status>>

\* http.go:429-436  one turn of the range loop
Deliver ==
  /\ pc = "loop"
  /\ idx <= Len(convs)
  /\ LET convID == convs[idx]
         secretToken == ExpectedToken(repo, convID)
     IN IF secret # secretToken
        THEN sent' = sent
        ELSE \E ok \in BOOLEAN : sent' = ChatEcho(sent, convID, message, ok)
  /\ idx' = idx + 1
  /\ UNCHANGED <<subs, typed, pc, req, parsed, message, repo, secret, convs, lookupErr,
                 lookups, status>>

\* http.go:436-437  the loop is over and the handler returns
Finish ==
  /\ pc = "loop"
  /\ idx > Len(convs)
  /\ Leave("200")
  /\ UNCHANGED <<subs, typed, req, parsed, message, repo, secret, convs, lookupErr, idx,
                 sent, lookups>>

\* the request is over: its goroutine and locals are gone
Close ==
  /\ pc = "done"
  /\ pc' = "idle"
  /\ req' = NoRequest
  /\ parsed' = NotParsed
  /\ message' = EmptyString
  /\ repo' = <<>>
  /\ secret' = NoSecret
  /\ convs' = <<>>
  /\ lookupErr' = NoError
  /\ idx' = 0
  /\ sent' = <<>>
  /\ lookups' = 0
  /\ status' = "idle"
  /\ UNCHANGED <<subs, typed>>

Next ==
  \/ \E c \in Convs, n \in RepoNames : Subscribe(c, n)
  \/ \E c \in Convs, n \in RepoNames : Unsubscribe(c, n)
  \/ \E r \in Requests : Receive(r)
  \/ Lookup
  \/ Deliver
  \/ Finish
  \/ Close

Spec == Init /\ [][Next]_vars

\* the server built with the first copy of handleWebhook (http.go:41-200)
Next_1 ==
  \/ \E c \in Convs, n \in RepoNames : Subscribe(c, n)
  \/ \E c \in Convs, n \in RepoNames : Unsubscribe(c, n)
  \/ \E r \in Requests : Receive_1(r)
  \/ Lookup
  \/ Deliver
  \/ Finish
  \/ Close

Spec_1 == Init /\ [][Next_1]_vars

(* ------------------------------ properties --------------------------- *)
\* the request in hand carries a body that decoded
Decoded == req.body.kind = "json" /\ req.label \in EventTypes
Payload == req.body.payload

\* the repository an event is about, read off the payload: the forked-from
\* repository of a fork, the repository of every other event
EventRepository(p) ==
  CASE p.schema \in {"PushPayload", "CreatePayload", "DeletePayload"} -> Deref(p.Repo).FullName
    [] p.schema = "ForkPayload" -> Deref(p.Forkee).FullName
    [] OTHER -> Deref(p.Repository).FullName

\* the conversations the handler delivered to (attempted a send to)
Delivered == {sent[i].conv : i \in DOMAIN sent}
Attempts(c) == Cardinality({i \in DOMAIN sent : sent[i].conv = c})
Looked == {convs[i] : i \in DOMAIN convs}

\* the token in the payload is the one derived for conversation c and the
\* event's repository, lowercased
TokenMatches(c) ==
  Payload.Secret = MakeSecret(ToLower(EventRepository(Payload)), c, InstanceSecret)

\* the loop of the handler ran to its end
LoopDone == pc = "done" /\ lookups = 1 /\ lookupErr = NoError

\* C1: a message goes only to a destination whose expected token,
\* MakeSecret(lowercased repository, destination, instance secret), equals
\* the token in the event payload.
C1_DeliveryOnlyOnMatch ==
  \A i \in DOMAIN sent : Decoded /\ TokenMatches(sent[i].conv)

\* a request that delivered to one destination and skipped another one
C1_Witness ==
  /\ LoopDone
  /\ Len(sent) = 1
  /\ \E c \in Looked : c \notin Delivered /\ ~TokenMatches(c)

IssuedToken(name, c) ==
  SecretShown(formatSetupInstructions("https://git", name, c, "https://bot", InstanceSecret))

\* C3: an event for repository R carrying the token issued to destination D
\* is delivered to no destination but D, whoever else is subscribed to R;
\* one event is delivered to at most one destination.
C3_BlastRadius ==
  /\ \A d \in Convs :
       (Decoded /\ sent # <<>>
          /\ Payload.Secret = IssuedToken(ToLower(EventRepository(Payload)), d))
         => Delivered = {d}
  /\ Cardinality(Delivered) <= 1
  /\ Len(sent) <= 1

\* three destinations subscribed to the repository, the event carries the
\* token of one of them, and that one alone got the message
C3_Witness ==
  /\ LoopDone
  /\ Cardinality(Looked) = 3
  /\ \E d \in Looked :
       /\ Payload.Secret = IssuedToken(ToLower(EventRepository(Payload)), d)
       /\ Delivered = {d}

\* conversation c holds a subscription made with the repository argument arg
SubscribedAs(c, arg) ==
  /\ \E t \in typed : t.conv = c /\ t.arg = arg
  /\ \E row \in subs : row.conv = c /\ row.repo = SubscribedName(arg)

C5_DeliveryFailureIsolation ==
  \A i \in DOMAIN sent :
    ~sent[i].ok =>
      /\ Attempts(sent[i].conv) = 1
      /\ status \in {"pending", "200"}
      /\ pc = "done" => (idx = Len(convs) + 1 /\ status = "200")
      /\ \A j \in DOMAIN convs : (j < idx /\ TokenMatches(convs[j])) => convs[j] \in Delivered

\* a failed send to the first of three destinations, and the loop at its end
C5_Witness ==
  /\ LoopDone
  /\ Len(convs) = 3
  /\ Len(sent) = 1
  /\ sent[1].conv = convs[1]
  /\ ~sent[1].ok
  /\ idx = 4

\* the events the formatter has nothing to say about
NoOpEvent(p) ==
  \/ p.schema = "PushPayload" /\ Len(p.Commits) = 0
  \/ p.schema = "RepositoryPayload" /\ p.Action \notin {"created", "deleted"}
  \/ p.schema = "ReleasePayload" /\ p.Action \notin {"published", "updated", "deleted"}
  \/ p.schema = "IssueCommentPayload" /\ p.Action \notin {"created", "deleted", "edited"}

\* C6: an event that renders no message (a push without commits, an
\* unhandled repository, release or issue-comment action) causes no registry
\* lookup and no delivery, and the handler finishes without raising an error.
C6_NoOpMeansNoDispatch ==
  (pc = "done" /\ Decoded /\ NoOpEvent(Payload)) =>
    (lookups = 0 /\ sent = <<>> /\ status = "200")

\* the request in hand does not decode: unknown label, or malformed body
Undecodable ==
  /\ req.body.kind \in {"json", "malformed"}
  /\ (req.label \notin EventTypes \/ req.body.kind = "malformed")

\* C7: when the label is not one of the twelve event types or the body does
\* not deserialize, ParseWebhook returns an error and a nil event, and the
\* handler formats nothing, looks nothing up and delivers nothing.
C7_DecodeFailureStops ==
  (pc # "idle" /\ Undecodable) =>
    /\ parsed.err # NoError
    /\ IsNil(parsed.event)
    /\ message = EmptyString /\ repo = <<>> /\ secret = NoSecret
    /\ lookups = 0
    /\ sent = <<>>
    /\ pc = "done"

\* a body of a recognized event type that broke off half way was handled
C7_Witness ==
  /\ pc = "done"
  /\ req.label \in EventTypes
  /\ req.body.kind = "malformed"
  /\ parsed.err # NoError

\* C8: whatever path the handler takes, the HTTP caller gets a success-class
\* status.
C8_AlwaysSuccessStatus == pc = "done" => status = "200"

\* C9: for a recognized label and a body that deserializes, the handler
\* reaches the dispatch decision without a runtime panic.
C9_DecodeThenFormatNeverPanics == (pc # "idle" /\ Decoded) => status # "aborted"

\* the conversations subscribed, under any spelling, to a case variant of name
SubscribedTo(name) ==
  {c \in Convs : \E arg \in RepoNames : ToLower(arg) = ToLower(name) /\ SubscribedAs(c, arg)}

C11_LookupFailureAbortsFanOut ==
  lookupErr # NoError =>
    /\ sent = <<>>
    /\ pc = "done"
    /\ idx = 0
    /\ status = "200"
    /\ ENABLED Close

\* the scan failed after the row of the one destination the token is for was
\* read, and nothing was sent
C11_Witness ==
  /\ pc = "done"
  /\ lookupErr = "scan error"
  /\ Len(convs) >= 1
  /\ \E i \in DOMAIN convs : TokenMatches(convs[i])
  /\ sent = <<>>

\* a step of handleWebhook: the request is in the handler before the step or
\* after it (the chat commands run between requests)
HandlerStep == pc # "idle" \/ pc' # "idle"

ForkEvent ==
  /\ Decoded
  /\ Payload.schema = "ForkPayload"
  /\ ~IsNil(Payload.Forkee)
  /\ ~IsNil(Payload.Repo)
\* the forked-from repository and the new fork, as the body names them
ForkOriginal == Deref(Payload.Forkee).FullName
ForkTarget == Deref(Payload.Repo).FullName

\* C13: for a fork event the registry is looked up under the original
\* (forked-from) repository and the expected token is derived from it, never
\* from the fork target, and the text names the original first and the fork
\* target second.
C13_ForkUsesOriginalRepository ==
  ForkEvent =>
    /\ Len(message) = 1
    /\ message[1].fmt = "%s has been forked to %s"
    /\ message[1].args = <<ForkOriginal, ForkTarget>>
    /\ repo = ToLower(ForkOriginal)
    /\ (lookups = 1 /\ lookupErr = NoError) =>
         Looked = {row.conv : row \in {r \in subs : r.repo = ToLower(ForkOriginal)}}
    /\ \A i \in DOMAIN sent :
         Payload.Secret = MakeSecret(ToLower(ForkOriginal), sent[i].conv, InstanceSecret)

\* a fork of x/y into Org/App was delivered to the subscriber of x/y, and the
\* subscriber of org/app was not looked up
C13_Witness ==
  /\ ForkEvent
  /\ LoopDone
  /\ ToLower(ForkTarget) # ToLower(ForkOriginal)
  /\ \E row \in subs : row.repo = ToLower(ForkTarget) /\ row.conv \notin Looked
  /\ Len(sent) = 1
  /\ sent[1].conv \in Looked

\* a pull-request event whose body holds every object the handler reads
PullRequestEvent ==
  /\ Decoded
  /\ Payload.schema = "PullRequestPayload"
  /\ ~IsNil(Payload.PullRequest) /\ ~IsNil(Payload.Sender) /\ ~IsNil(Payload.Repository)
  /\ ~IsNil(Deref(Payload.PullRequest).Head)
  /\ ~IsNil(Deref(Deref(Payload.PullRequest).Head).Repository)
\* the arguments of the source field "<head-repo>/<head-branch>" of the event
PRSourceOf(p) ==
  LET head == Deref(Deref(p.PullRequest).Head)
  IN <<Deref(head.Repository).FullName, head.Name>>
\* the actions rendered in full
FullActions == {"opened", "closed", "reopened", "edited"}
\* where a pull-request text puts the source field: the argument after
\* "from source", 0 for a text that has no such field
SourceSlot(format) ==
  IF format = "%s %s PR \"%s\" (#%d) on %s from source %s: %s" THEN 6 ELSE 0
CarriesSource(piece, p) ==
  /\ SourceSlot(piece.fmt) > 0
  /\ piece.args[SourceSlot(piece.fmt)][1].fmt = "%s/%s"
  /\ piece.args[SourceSlot(piece.fmt)][1].args = PRSourceOf(p)
\* the rule of FormatIssueMsg an action falls under
IssueRule(action) ==
  LET n == Len(FormatIssueMsg(action, "u", 1, <<>>, "a", "t", "l")[1].args)
  IN CASE n = 6 -> "full" [] n = 7 -> "assigned" [] OTHER -> "fallback"

\* C14: a pull-request event is rendered by the rules of the issue events,
\* with a source field: the full text with the source "<head-repo>/<head-branch>"
\* for opened, closed, reopened and edited, the full text with the source and
\* the assignee for assigned, and a non-empty minimal text for any other
\* action.
C14_PullRequestFollowsIssueRules ==
  PullRequestEvent =>
    /\ Len(message) = 1
    /\ IssueRule(Payload.Action) \in {"full", "assigned"} =>
         CarriesSource(message[1], Payload)
    /\ IssueRule(Payload.Action) = "assigned" <=> Payload.Action = "assigned"
    /\ IssueRule(Payload.Action) = "full" <=> Payload.Action \in FullActions
    /\ IssueRule(Payload.Action) = "fallback" =>
         message[1].args = <<message[1].args[1], Payload.Action, Deref(Payload.PullRequest).Index>>

\* the account an event's text names as its actor
ActorOf(p) ==
  CASE p.schema = "PushPayload" -> p.Pusher
    [] p.schema = "IssueCommentPayload" -> Deref(p.Comment).Poster
    [] OTHER -> p.Sender
\* the assignee of the issue or pull request of an event, a pointer
AssigneeOf(p) ==
  IF p.schema = "IssuePayload" THEN Deref(p.Issue).Assignee
  ELSE Deref(p.PullRequest).Assignee
\* the name to show for an account: the display name, or the handle when the
\* display name is empty
NameToShow(user) == IF user.FullName # "" THEN user.FullName ELSE user.UserName
\* a text that names an actor was rendered for the request in hand
NamesActor ==
  /\ Decoded
  /\ Payload.schema \in {"PushPayload", "IssuePayload", "IssueCommentPayload",
                         "RepositoryPayload", "ReleasePayload", "PullRequestPayload"}
  /\ Len(message) >= 1
NamesAssignee ==
  /\ NamesActor
  /\ Payload.schema \in {"IssuePayload", "PullRequestPayload"}
  /\ Payload.Action = "assigned"
  /\ ~IsNil(AssigneeOf(Payload))

\* C15: every rendered text that names an actor or an assignee shows the
\* account's display name when it is non-empty and the account handle
\* otherwise, so no text shows an empty name for an account that has a handle.
C15_ActorNameFallback ==
  /\ NamesActor => message[1].args[1] = NameToShow(Deref(ActorOf(Payload)))
  /\ NamesAssignee => message[1].args[6] = NameToShow(Deref(AssigneeOf(Payload)))

TypeOK ==
  /\ pc \in {"idle", "lookup", "loop", "done"}
  /\ status \in {"idle", "pending", "200", "aborted"}
  /\ Cardinality(subs) <= MaxSubs

====
